---- MODULE Spec2Model ----
(***************************************************************************)
(* A model of sentry-tide's SentryMiddleware (src/src/lib.rs): the builder *)
(* that configures it, the per-request handle() pipeline (hub creation,    *)
(* scope configuration, downstream handler, capture of server errors) and  *)
(* the two pure helpers sentry_request_from_http and process_event.        *)
(*                                                                         *)
(* Options are modelled as sequences of length 0 (None) or 1 (Some(x)).    *)
(* Strings that the code builds by formatting are sequences of tokens.     *)
(***************************************************************************)
EXTENDS Integers, Sequences, FiniteSets, TLC

\* ---------------------------------------------------------------- bounds
NumReqs == 2        \* request tasks that can be in flight at once
IdBytes == 2        \* bytes of an event identifier (a UUID has 16)
MaxPkgs == 2        \* packages an event's SDK info carries before processing
MaxApply == 2       \* times process_event is applied in a row to one event
NumWorkers == 1     \* worker threads that poll the request tasks

Reqs == 1..NumReqs
Workers == 1..NumWorkers

None == <<>>
Some(x) == <<x>>
IsSome(o) == Len(o) = 1
IsNone(o) == Len(o) = 0
Unwrap(o) == o[1]

\* ------------------------------------------------------- event identifier
\* Uuid::nil() / EventId::default(): all bytes zero.
NilId == [i \in 1..IdBytes |-> 0]

\* Identifiers the client can generate for an event (never nil).
NewIds == { [i \in 1..IdBytes |-> b] : b \in {9, 171} }

HexDigit(n) ==
    <<"0", "1", "2", "3", "4", "5", "6", "7",
      "8", "9", "a", "b", "c", "d", "e", "f">>[n + 1]

RECURSIVE SimpleFrom(_, _)
SimpleFrom(id, i) ==
    IF i > Len(id) THEN <<>>
    ELSE <<HexDigit(id[i] \div 16), HexDigit(id[i] % 16)>> \o SimpleFrom(id, i + 1)

RECURSIVE HyphenatedFrom(_, _)
HyphenatedFrom(id, i) ==
    IF i > Len(id) THEN <<>>
    ELSE (IF i > 1 THEN <<"-">> ELSE <<>>)
         \o <<HexDigit(id[i] \div 16), HexDigit(id[i] % 16)>>
         \o HyphenatedFrom(id, i + 1)

\* A rendering with group separators, as Uuid's default Display gives.
ToHyphenated(id) == HyphenatedFrom(id, 1)

\* event_id.to_simple_ref().to_string(): lowercase hex, no dashes.
ToSimple(id) == SimpleFrom(id, 1)

\* ------------------------------------------------------------ the request
\* tide::http::Method and its Display (the upper-case verb).
Methods == {"Get", "Post"}
MethodToString(m) == IF m = "Get" THEN "GET" ELSE "POST"

\* Url: the parts url::Url keeps apart, each a string (a sequence of tokens);
\* path() is the path part alone, without query and fragment.
MkUrl(p, q, f) == [path |-> p, query |-> q, fragment |-> f]
UrlPath(url) == url.path

\* HeaderValues' Display: the values as a bracketed, comma-separated list of
\* quoted strings.
RECURSIVE ValuesList(_, _)
ValuesList(vs, i) ==
    IF i > Len(vs) THEN <<>>
    ELSE (IF i > 1 THEN <<", ">> ELSE <<>>) \o <<"\"", vs[i], "\"">> \o ValuesList(vs, i + 1)

HeaderValuesToString(vs) == <<"[">> \o ValuesList(vs, 1) \o <<"]">>

\* A request's headers are a map from header name to its values; iter()
\* yields one (name, values) pair per name.  Modelled as the sequence of pairs
\* in iteration order, names distinct.
HeadersNone == <<>>
HeadersOne == << [name |-> "accept", values |-> <<"json">>] >>
HeadersTwo ==
    << [name |-> "cookie", values |-> <<"a=1", "b=2">>],
       [name |-> "accept", values |-> <<"html">>] >>

HeaderNames(hs) == { hs[i].name : i \in 1..Len(hs) }
HeaderIndex(hs, n) == CHOOSE i \in 1..Len(hs) : hs[i].name = n

MkRequest(p, q, f, m, h, rem) ==
    [url |-> MkUrl(p, q, f), method |-> m, headers |-> h, remote |-> rem]

\* The requests a client can send: two paths, with and without a query
\* string, either method, three header maps, peer address known or not.
RequestInputs ==
    { MkRequest(<<"/orders", "/42">>, Some("page=2"), None, "Post", HeadersTwo, rem) :
        rem \in {None, Some("10.0.0.7:4711")} }
    \cup
    { MkRequest(<<"/orders", "/42">>, None, None, "Get", HeadersOne, Some("10.0.0.9:80")) }
    \cup
    { MkRequest(<<"/health">>, None, None, "Get", HeadersNone, Some("10.0.0.7:4711")),
      MkRequest(<<"/health">>, Some("v"), Some("top"), "Get", HeadersNone, None) }

NoRequest == MkRequest(<<>>, None, None, "Get", HeadersNone, None)

\* SentryRequest::default()
DefaultSentryRequest ==
    [url |-> None, method |-> None, data |-> None, query_string |-> None,
     cookies |-> None, headers |-> <<>>, env |-> <<>>]

\* Map::insert on a string-keyed map (a function with a finite set of keys).
MapInsert(m, k, v) == [x \in (DOMAIN m) \cup {k} |-> IF x = k THEN v ELSE m[x]]

\* A collection that keeps the first value of each name only.
CollectHeaders_first(hs) ==
    [n \in HeaderNames(hs) |-> HeaderValuesToString(<<hs[HeaderIndex(hs, n)].values[1]>>)]

\* headers: request.iter().map(|(k, v)| (k.to_string(), v.to_string())).collect()
CollectHeaders(hs) ==
    [n \in HeaderNames(hs) |-> HeaderValuesToString(hs[HeaderIndex(hs, n)].values)]

\* The header names of the model in the order of the snapshot's map, which is
\* sorted by key.
HeaderOrder == <<"accept", "cookie", "x-internal">>

\* Iterating the snapshot's header map: one (name, value) entry per key, by key.
MapEntries(m) ==
    LET present == SelectSeq(HeaderOrder, LAMBDA n : n \in DOMAIN m)
    IN [i \in 1..Len(present) |-> [name |-> present[i], value |-> m[present[i]]]]

\* The snapshot before the PII step.
SnapshotBase(request) ==
    [DefaultSentryRequest EXCEPT
        !.url = Some(request.url),
        !.method = Some(MethodToString(request.method)),
        !.headers = CollectHeaders(request.headers)]

\* A translator whose transaction label keeps the query string.
sentry_request_from_http_query(request, with_pii) ==
    LET base == SnapshotBase(request)
    IN [tx |-> Some(UrlPath(request.url) \o request.url.query),
        sentry_req |->
            IF with_pii /\ IsSome(request.remote)
            THEN [base EXCEPT !.env = MapInsert(base.env, "REMOTE_ADDR", Unwrap(request.remote))]
            ELSE base]

\* A translator that records the remote address whatever the PII flag says.
sentry_request_from_http_leaky(request, with_pii) ==
    LET base == SnapshotBase(request)
    IN [tx |-> Some(UrlPath(request.url)),
        sentry_req |->
            IF IsSome(request.remote)
            THEN [base EXCEPT !.env = MapInsert(base.env, "REMOTE_ADDR", Unwrap(request.remote))]
            ELSE base]

\* fn sentry_request_from_http(request, with_pii) -> (Option<String>, SentryRequest)
sentry_request_from_http(request, with_pii) ==
    LET transaction == Some(UrlPath(request.url))
        base == SnapshotBase(request)
        sentry_req ==
            IF with_pii /\ IsSome(request.remote)
            THEN [base EXCEPT !.env = MapInsert(base.env, "REMOTE_ADDR", Unwrap(request.remote))]
            ELSE base
    IN [tx |-> transaction, sentry_req |-> sentry_req]

\* -------------------------------------------------------------- the event
\* env!("CARGO_PKG_NAME") / env!("CARGO_PKG_VERSION")
ThisPackage == [name |-> "sentry-tide", version |-> "pkg-version"]

\* The SDK info the reporting client stamps on an event that has none.
ClientSdkInfo ==
    [name |-> "sentry.rust", packages |-> << [name |-> "cargo:sentry-core", version |-> "core-version"] >>]

\* The event the failure-to-event conversion builds from an error payload:
\* no identifier yet, no transaction, no request, no SDK info.
EventFromError(payload) ==
    [event_id |-> NilId, exception |-> payload, transaction |-> None,
     request |-> None, sdk |-> None, applied |-> <<>>]

\* A processor that overwrites the request field.
process_event_clobber(event, request) ==
    LET e1 == [event EXCEPT !.request = Some(request)]
    IN IF IsSome(e1.sdk)
       THEN [e1 EXCEPT !.sdk = Some([Unwrap(e1.sdk) EXCEPT
                                        !.packages = Append(Unwrap(e1.sdk).packages, ThisPackage)])]
       ELSE e1

\* A processor that puts its package entry first.
process_event_prepend(event, request) ==
    LET e1 == IF IsNone(event.request) THEN [event EXCEPT !.request = Some(request)] ELSE event
    IN IF IsSome(e1.sdk)
       THEN [e1 EXCEPT !.sdk = Some([Unwrap(e1.sdk) EXCEPT
                                        !.packages = <<ThisPackage>> \o Unwrap(e1.sdk).packages])]
       ELSE e1

\* fn process_event(event, request) -> Event
process_event(event, request) ==
    LET e1 == IF IsNone(event.request) THEN [event EXCEPT !.request = Some(request)] ELSE event
    IN IF IsSome(e1.sdk)
       THEN [e1 EXCEPT !.sdk = Some([Unwrap(e1.sdk) EXCEPT
                                        !.packages = Append(Unwrap(e1.sdk).packages, ThisPackage)])]
       ELSE e1

\* ---------------------------------------------------- scopes, hubs, client
\* An event processor registered on a scope: one the application put on the
\* main scope at start-up (opaque; it leaves request and SDK info alone), or
\* the closure handle() registers, which owns its Request Snapshot.
\* owner is the request whose handle() registered the closure (0: nobody).
InheritedProcessor == [kind |-> "app", owner |-> 0, sentry_req |-> DefaultSentryRequest]
TideProcessor(r, sentry_req) == [kind |-> "tide", owner |-> r, sentry_req |-> sentry_req]

\* Calling a processor on an event; applied records whose processors ran.
ApplyProcessor(p, event) ==
    LET out == IF p.kind = "tide" THEN process_event(event, p.sentry_req) ELSE event
    IN [out EXCEPT !.applied = Append(event.applied, p.owner)]

RECURSIVE ApplyProcessors(_, _, _)
ApplyProcessors(ps, i, event) ==
    IF i > Len(ps) THEN event
    ELSE ApplyProcessors(ps, i + 1, ApplyProcessor(ps[i], event))

\* Scope::apply_to_event: the scope's transaction fills an absent one, then
\* the processors run in registration order.
ApplyScope(scope, event) ==
    LET e1 == IF IsNone(event.transaction) /\ IsSome(scope.transaction)
              THEN [event EXCEPT !.transaction = scope.transaction]
              ELSE event
    IN ApplyProcessors(scope.processors, 1, e1)

\* Client::prepare_event for an event that is not sampled out: identifier and
\* SDK info are set before the scope is applied.
PrepareEvent(scope, event, id) ==
    LET e1 == IF event.event_id = NilId THEN [event EXCEPT !.event_id = id] ELSE event
        e2 == IF IsNone(e1.sdk) THEN [e1 EXCEPT !.sdk = Some(ClientSdkInfo)] ELSE e1
    IN ApplyScope(scope, e2)

MainHub == <<"main", 0>>
CustomHub == <<"custom", 0>>
ReqHub(r) == <<"req", r>>
NoParent == <<"none", 0>>
\* The hub a worker thread has as its current one when nothing is bound.
ThreadHub(w) == <<"thread", w>>
HubIds ==
    {MainHub, CustomHub} \cup { ReqHub(r) : r \in Reqs } \cup { ThreadHub(w) : w \in Workers }

EmptyScope == [transaction |-> None, processors |-> <<>>]
NoHub == [client |-> None, scope |-> EmptyScope, parent |-> NoParent]

\* The reporting clients a hub can be bound to (None: reporting disabled).
MkClient(name, pii) == [name |-> name, send_default_pii |-> pii]
MainClients == {None, Some(MkClient("main-client", FALSE)), Some(MkClient("main-client", TRUE))}

\* Hub::new_from_top(parent): the parent's client and a copy of its scope.
new_from_top(hubsv, parent) ==
    [client |-> hubsv[parent].client, scope |-> hubsv[parent].scope, parent |-> parent]

\* A scope configuration that is put off: nothing is set before the handler.
ConfigureScope_late(scope, tx, p) == scope

\* scope.set_transaction(tx); scope.add_event_processor(p)
ConfigureScope(scope, tx, p) ==
    [transaction |-> tx, processors |-> Append(scope.processors, p)]

\* ---------------------------------------------------------- the response
IsServerError(status) == status >= 500 /\ status <= 599

\* tide::Error::new(status, payload); error.status(); error.into_inner()
NewError(status, payload) == [status |-> status, payload |-> payload]

MkResponse(status, error, headers) == [status |-> status, error |-> error, headers |-> headers]

NoHeaders == <<>>
StaleHeader == [n \in {"x-sentry-event"} |-> <<"stale">>]
TypeHeader == [n \in {"content-type"} |-> <<"text/plain">>]

\* What the downstream handler chain can answer.
HandlerResponses ==
    { MkResponse(200, None, TypeHeader),
      MkResponse(404, Some(NewError(404, "not found")), NoHeaders),
      MkResponse(500, None, NoHeaders),
      MkResponse(500, Some(NewError(500, "db down")), TypeHeader),
      MkResponse(503, Some(NewError(503, "overloaded")), NoHeaders),
      MkResponse(503, Some(NewError(500, "io")), StaleHeader) }

NoResponse == MkResponse(0, None, NoHeaders)

\* response.insert_header(name, value): replaces the header's values.
InsertHeader(resp, name, value) == [resp EXCEPT !.headers = MapInsert(resp.headers, name, value)]

\* ------------------------------------------------------------- the state
VARIABLES
    mw,           \* the SentryMiddleware value: hub, emit_header, capture_server_errors
    mounted,      \* the server holds the middleware: no builder call can follow
    hubs,         \* every hub: the main one, the application's own, one per request
    pc,           \* where each request task is in handle()
    request,      \* the request each task was called with
    hubOf,        \* the hub handle() works with for each request
    handlerResp,  \* the response next.run() returned
    response,     \* the response handle() holds (and, when done, returned)
    captures,     \* handle()'s calls of hub.capture_anyhow: hub used, identifier returned
    delivered,    \* the events the client accepted from each request's capture calls
    live,         \* the request object as the handler chain holds it (it may change it)
    worker,       \* the worker thread polling each request's handler (0: none)
    threadHub,    \* each worker thread's current hub (what Hub::current() resolves to)
    pev           \* process_event on its own: the event and snapshot given, the results

vars == <<mw, mounted, hubs, pc, request, hubOf, handlerResp, response, captures, delivered,
          live, worker, threadHub, pev>>

\* SentryMiddleware::new()
new == [hub |-> None, emit_header |-> FALSE, capture_server_errors |-> TRUE]

\* The scope the application configured on the main hub at start-up.
StartupScope == [transaction |-> Some(<<"startup">>), processors |-> <<InheritedProcessor>>]

\* process_event has not been called on its own.
NoProcessing == [event |-> EventFromError("none"), sentry_req |-> DefaultSentryRequest, out |-> <<>>]

Init ==
    /\ mw = new
    /\ mounted = FALSE
    /\ \E c \in MainClients :
         hubs = [h \in HubIds |->
                   CASE h = MainHub -> [client |-> c, scope |-> StartupScope, parent |-> NoParent]
                     [] h = CustomHub -> [client |-> Some(MkClient("custom-client", TRUE)),
                                          scope |-> EmptyScope, parent |-> NoParent]
                     [] h \in { ThreadHub(w) : w \in Workers } ->
                                         [client |-> c, scope |-> StartupScope, parent |-> MainHub]
                     [] OTHER -> NoHub]
    /\ pc = [r \in Reqs |-> "idle"]
    /\ request = [r \in Reqs |-> NoRequest]
    /\ hubOf = [r \in Reqs |-> NoParent]
    /\ handlerResp = [r \in Reqs |-> NoResponse]
    /\ response = [r \in Reqs |-> NoResponse]
    /\ captures = [r \in Reqs |-> <<>>]
    /\ delivered = [r \in Reqs |-> <<>>]
    /\ live = [r \in Reqs |-> NoRequest]
    /\ worker = [r \in Reqs |-> 0]
    /\ threadHub = [w \in Workers |-> ThreadHub(w)]
    /\ pev = NoProcessing

\* ------------------------------------------------------------ the builder
frame_requests == <<hubs, pc, request, hubOf, handlerResp, response, captures, delivered,
                    live, worker, threadHub, pev>>

\* pub fn with_hub(mut self, hub: Arc<Hub>) -> Self
with_hub ==
    /\ ~mounted
    /\ mw' = [mw EXCEPT !.hub = Some(CustomHub)]
    /\ UNCHANGED <<mounted, frame_requests>>

\* pub fn with_default_hub(mut self) -> Self
with_default_hub ==
    /\ ~mounted
    /\ mw' = [mw EXCEPT !.hub = None]
    /\ UNCHANGED <<mounted, frame_requests>>

\* pub fn emit_header(mut self, val: bool) -> Self
emit_header ==
    /\ ~mounted
    /\ \E val \in BOOLEAN : mw' = [mw EXCEPT !.emit_header = val]
    /\ UNCHANGED <<mounted, frame_requests>>

\* pub fn capture_server_errors(mut self, val: bool) -> Self
capture_server_errors ==
    /\ ~mounted
    /\ \E val \in BOOLEAN : mw' = [mw EXCEPT !.capture_server_errors = val]
    /\ UNCHANGED <<mounted, frame_requests>>

\* ------------------------------------------------------------- handle()
\* A handle() that works on the shared main hub itself.
CreateHub_shared(hubsv, cfg, r) == [id |-> MainHub, hubs |-> hubsv]

\* let hub = Arc::new(Hub::new_from_top(Hub::main()));
CreateHub(hubsv, cfg, r) ==
    [id |-> ReqHub(r), hubs |-> [hubsv EXCEPT ![ReqHub(r)] = new_from_top(hubsv, MainHub)]]

\* client.as_ref().map_or(false, |x| x.options().send_default_pii)
WithPii(client) == IF IsSome(client) THEN Unwrap(client).send_default_pii ELSE FALSE

\* A binding that leaves the thread's current hub as it is.
BoundHub_unbound(hub, current) == current

\* .bind_hub(hub.clone()): while the handler's future is polled, the thread's
\* current hub is the given one.
BoundHub(hub, current) == hub

\* handle(), up to the call of next.run(): the request's hub is created from
\* the main hub and its scope gets the transaction and the processor; the
\* request is moved into the handler chain.
HandleBegin(r) ==
    /\ pc[r] = "idle"
    /\ \E req \in RequestInputs :
         LET made == CreateHub(hubs, mw, r)
             hub == made.id
             client == made.hubs[hub].client
             with_pii == WithPii(client)
             t == sentry_request_from_http(req, with_pii)
         IN /\ request' = [request EXCEPT ![r] = req]
            /\ live' = [live EXCEPT ![r] = req]
            /\ hubOf' = [hubOf EXCEPT ![r] = hub]
            /\ hubs' = [made.hubs EXCEPT
                          ![hub].scope = ConfigureScope(@, t.tx, TideProcessor(r, t.sentry_req))]
    /\ mounted' = TRUE
    /\ pc' = [pc EXCEPT ![r] = "running"]
    /\ UNCHANGED <<pev, mw, handlerResp, response, captures, delivered, worker, threadHub>>

\* A free worker polls the handler's future: the hub bound to it becomes the
\* thread's current hub for the time of the poll.
PollBegin(r) ==
    /\ pc[r] = "running"
    /\ \E w \in Workers :
         /\ \A q \in Reqs : worker[q] # w
         /\ worker' = [worker EXCEPT ![r] = w]
         /\ threadHub' = [threadHub EXCEPT ![w] = BoundHub(hubOf[r], @)]
    /\ pc' = [pc EXCEPT ![r] = "polling"]
    /\ UNCHANGED <<pev, mw, mounted, hubs, request, hubOf, handlerResp, response, captures,
                   delivered, live>>

\* What handler code can do to the request it owns: another target, one more
\* header, the peer address overridden.
MutatedRequest(req) ==
    [req EXCEPT !.url = MkUrl(<<"/rewritten">>, None, None),
                !.method = "Post",
                !.headers = Append(@, [name |-> "x-internal", values |-> <<"1">>]),
                !.remote = Some("forwarded-peer")]

\* Handler code changes the request during a poll.
HandlerMutate(r) ==
    /\ pc[r] = "polling"
    /\ live[r] = request[r]
    /\ live' = [live EXCEPT ![r] = MutatedRequest(@)]
    /\ UNCHANGED <<pev, mw, mounted, hubs, pc, request, hubOf, handlerResp, response, captures,
                   delivered, worker, threadHub>>

\* The handler's future is not ready: the poll ends, the thread gets its own
\* hub back, the task waits for its next poll.
PollPending(r) ==
    /\ pc[r] = "polling"
    /\ threadHub' = [threadHub EXCEPT ![worker[r]] = ThreadHub(worker[r])]
    /\ worker' = [worker EXCEPT ![r] = 0]
    /\ pc' = [pc EXCEPT ![r] = "running"]
    /\ UNCHANGED <<pev, mw, mounted, hubs, request, hubOf, handlerResp, response, captures,
                   delivered, live>>

\* next.run(request).bind_hub(hub.clone()).await is ready: the handler chain
\* answers, the poll ends, the thread gets its own hub back.
RunNext(r) ==
    /\ pc[r] = "polling"
    /\ \E resp \in HandlerResponses :
         /\ handlerResp' = [handlerResp EXCEPT ![r] = resp]
         /\ response' = [response EXCEPT ![r] = resp]
    /\ threadHub' = [threadHub EXCEPT ![worker[r]] = ThreadHub(worker[r])]
    /\ worker' = [worker EXCEPT ![r] = 0]
    /\ pc' = [pc EXCEPT ![r] = "returned"]
    /\ UNCHANGED <<pev, mw, mounted, hubs, request, hubOf, captures, delivered, live>>

\* A capture condition that looks at the status alone.
ShouldCapture_any5xx(cfg, resp) == IsServerError(resp.status)

\* A capture condition that takes every error status.
ShouldCapture_4xx(cfg, resp) == cfg.capture_server_errors /\ resp.status >= 400

\* A capture condition that knows one status only.
ShouldCapture_only500(cfg, resp) == cfg.capture_server_errors /\ resp.status = 500

\* self.capture_server_errors && response.status().is_server_error()
ShouldCapture(cfg, resp) == cfg.capture_server_errors /\ IsServerError(resp.status)

\* hub.capture_anyhow(&anyhow_error): what the call can return and hand to the
\* client.  No client: the nil identifier and nothing sent.  A client may
\* sample the event out (nil identifier) or accept it under a new identifier.
CaptureOutcomes(hub, payload) ==
    IF IsNone(hub.client)
    THEN { [event_id |-> NilId, sent |-> <<>>] }
    ELSE { [event_id |-> NilId, sent |-> <<>>] }
         \cup { [event_id |-> id, sent |-> << PrepareEvent(hub.scope, EventFromError(payload), id) >>] :
                  id \in NewIds }

\* An annotation that writes the identifier with separators.
Annotate_hyphenated(cfg, resp, status, payload, event_id) ==
    LET r1 == IF cfg.emit_header
              THEN InsertHeader(resp, "x-sentry-event", ToHyphenated(event_id))
              ELSE resp
    IN [r1 EXCEPT !.error = Some(NewError(status, payload))]

\* An annotation that re-attaches the error under the response's status.
Annotate_restatus(cfg, resp, status, payload, event_id) ==
    LET r1 == IF cfg.emit_header
              THEN InsertHeader(resp, "x-sentry-event", ToSimple(event_id))
              ELSE resp
    IN [r1 EXCEPT !.error = Some(NewError(resp.status, payload))]

\* if self.emit_header { response.insert_header("x-sentry-event", ...) }
\* response.set_error(tide::Error::new(status, anyhow_error));
Annotate(cfg, resp, status, payload, event_id) ==
    LET r1 == IF cfg.emit_header
              THEN InsertHeader(resp, "x-sentry-event", ToSimple(event_id))
              ELSE resp
    IN [r1 EXCEPT !.error = Some(NewError(status, payload))]

\* A take_error that makes up a failure object when there is none.
TakeError_default(resp) ==
    IF IsSome(resp.error) THEN resp.error ELSE Some(NewError(resp.status, "unknown"))

\* response.take_error(): the failure object attached to the response, if any.
TakeError(resp) == resp.error

\* A closure that reads the request when it is called.
CapturedSnapshot_live(sentry_req, liveReq) ==
    [sentry_req EXCEPT !.url = Some(liveReq.url),
                       !.method = Some(MethodToString(liveReq.method)),
                       !.headers = CollectHeaders(liveReq.headers)]

\* move |event| Some(process_event(event, &sentry_req)): the closure owns the
\* snapshot built before the handler ran, whatever the request has become.
CapturedSnapshot(sentry_req, liveReq) == sentry_req

\* The scope as a submission finds it: every closure with the snapshot it
\* works on.
ScopeAtCapture(scope, liveReqs) ==
    [scope EXCEPT !.processors =
        [i \in DOMAIN scope.processors |->
            IF scope.processors[i].kind = "tide"
            THEN [scope.processors[i] EXCEPT
                    !.sentry_req = CapturedSnapshot(@, liveReqs[scope.processors[i].owner])]
            ELSE scope.processors[i]]]

\* A handle() that hands a failed submission to its caller.
HandleResult_propagate(out) == IF out.event_id = NilId THEN "failed" ELSE "done"

\* Ok(response): whatever the submission gave, handle() returns the response.
HandleResult(out) == "done"

\* A drop that leaves the request's hub behind.
ReleaseHub_leak(hubsv, r) == hubsv

\* The request's hub goes out of scope: the task held its only references.
ReleaseHub(hubsv, r) == [hubsv EXCEPT ![ReqHub(r)] = NoHub]

\* handle(), after next.run() returned: capture a server error, annotate the
\* response, return it.
HandleEnd(r) ==
    /\ pc[r] = "returned"
    /\ IF ShouldCapture(mw, response[r]) /\ IsSome(TakeError(response[r]))
       THEN LET error == Unwrap(TakeError(response[r]))
                taken == [response[r] EXCEPT !.error = None]
                status == error.status
                anyhow_error == error.payload
                hub == [hubs[hubOf[r]] EXCEPT !.scope = ScopeAtCapture(@, live)]
            IN \E out \in CaptureOutcomes(hub, anyhow_error) :
                 /\ captures' = [captures EXCEPT
                       ![r] = Append(@, [hub |-> hubOf[r], event_id |-> out.event_id])]
                 /\ delivered' = [delivered EXCEPT ![r] = @ \o out.sent]
                 /\ response' = [response EXCEPT
                       ![r] = Annotate(mw, taken, status, anyhow_error, out.event_id)]
                 /\ pc' = [pc EXCEPT ![r] = HandleResult(out)]
       ELSE /\ UNCHANGED <<captures, delivered, response>>
            /\ pc' = [pc EXCEPT ![r] = "done"]
    /\ UNCHANGED <<pev, mw, mounted, hubs, request, hubOf, handlerResp, live, worker, threadHub>>

\* The task is dropped while it waits for the handler chain (the client went
\* away, the server shuts down): handle() never resumes, its hub is released.
Cancel(r) ==
    /\ pc[r] = "running"
    /\ pc' = [pc EXCEPT ![r] = "cancelled"]
    /\ hubs' = ReleaseHub(hubs, r)
    /\ UNCHANGED <<pev, mw, mounted, request, hubOf, handlerResp, response, captures, delivered,
                   live, worker, threadHub>>

\* The response has gone out (or the task was dropped) and the task's hub is
\* dropped; the task slot serves the next request.
Finish(r) ==
    /\ pc[r] \in {"done", "failed", "cancelled"}
    /\ pc' = [pc EXCEPT ![r] = "idle"]
    /\ hubs' = ReleaseHub(hubs, r)
    /\ request' = [request EXCEPT ![r] = NoRequest]
    /\ live' = [live EXCEPT ![r] = NoRequest]
    /\ hubOf' = [hubOf EXCEPT ![r] = NoParent]
    /\ handlerResp' = [handlerResp EXCEPT ![r] = NoResponse]
    /\ response' = [response EXCEPT ![r] = NoResponse]
    /\ captures' = [captures EXCEPT ![r] = <<>>]
    /\ delivered' = [delivered EXCEPT ![r] = <<>>]
    /\ UNCHANGED <<pev, mw, mounted, worker, threadHub>>

Next ==
    \/ with_hub
    \/ with_default_hub
    \/ emit_header
    \/ capture_server_errors
    \/ \E r \in Reqs : HandleBegin(r)
    \/ \E r \in Reqs : PollBegin(r)
    \/ \E r \in Reqs : HandlerMutate(r)
    \/ \E r \in Reqs : PollPending(r)
    \/ \E r \in Reqs : RunNext(r)
    \/ \E r \in Reqs : HandleEnd(r)
    \/ \E r \in Reqs : Cancel(r)
    \/ \E r \in Reqs : Finish(r)

Spec == Init /\ [][Next]_vars

\* ------------------------------------------------ process_event on its own
\* The events a processor can be handed: request field absent, present but
\* default, or filled by an earlier processor; SDK info absent or present
\* with up to MaxPkgs packages (this package's own entry among them).
KnownPackages == {ThisPackage, [name |-> "cargo:sentry-core", version |-> "core-version"]}
PackageLists == UNION { [1..n -> KnownPackages] : n \in 0..MaxPkgs }
SnapshotInputs ==
    { sentry_request_from_http(req, pii).sentry_req :
        req \in { q \in RequestInputs : IsSome(q.remote) /\ q.method = "Get" },
        pii \in BOOLEAN }
ProcessInputs ==
    { [EventFromError("boom") EXCEPT !.request = rq, !.sdk = sdk] :
        rq \in {None, Some(DefaultSentryRequest),
                Some(SnapshotBase(MkRequest(<<"/inner">>, None, None, "Post", HeadersOne, None)))},
        sdk \in {None} \cup { Some([name |-> "sentry.rust", packages |-> ps]) : ps \in PackageLists } }

InitProcess ==
    /\ mw = new
    /\ mounted = FALSE
    /\ hubs = [h \in HubIds |-> NoHub]
    /\ pc = [r \in Reqs |-> "idle"]
    /\ request = [r \in Reqs |-> NoRequest]
    /\ hubOf = [r \in Reqs |-> NoParent]
    /\ handlerResp = [r \in Reqs |-> NoResponse]
    /\ response = [r \in Reqs |-> NoResponse]
    /\ captures = [r \in Reqs |-> <<>>]
    /\ delivered = [r \in Reqs |-> <<>>]
    /\ live = [r \in Reqs |-> NoRequest]
    /\ worker = [r \in Reqs |-> 0]
    /\ threadHub = [w \in Workers |-> ThreadHub(w)]
    /\ \E ev \in ProcessInputs, sr \in SnapshotInputs :
         pev = [event |-> ev, sentry_req |-> sr, out |-> <<>>]

\* The event the next application receives.
ProcessCurrent == IF pev.out = <<>> THEN pev.event ELSE pev.out[Len(pev.out)]

\* One call process_event(event, &sentry_req).
Process ==
    /\ Len(pev.out) < MaxApply
    /\ pev' = [pev EXCEPT !.out = Append(@, process_event(ProcessCurrent, pev.sentry_req))]
    /\ UNCHANGED <<mw, mounted, hubs, pc, request, hubOf, handlerResp, response, captures, delivered,
                   live, worker, threadHub>>

SpecProcess == InitProcess /\ [][Process]_vars

\* ================================================================ claims
InFlight(r) == pc[r] \notin {"idle", "cancelled"}
Returned(r) == pc[r] = "done"
Events(r) == { delivered[r][i] : i \in 1..Len(delivered[r]) }
Calls(r) == { captures[r][i] : i \in 1..Len(captures[r]) }
Owners(e) == { e.applied[i] : i \in 1..Len(e.applied) }
UpperCase(m) == CASE m = "Get" -> "GET" [] m = "Post" -> "POST"

\* C1: under any interleaving of the in-flight requests, every event the
\* client accepts from request r's capture carries r's path as transaction
\* and r's url, method and headers as request field, and the only handle()
\* closure that ran on it is r's own; the scope of r's hub holds r's
\* transaction and no other request's closure.
C1_Isolation ==
    \A r \in Reqs :
        /\ InFlight(r) =>
             LET scope == hubs[hubOf[r]].scope
             IN /\ scope.transaction = Some(request[r].url.path)
                /\ \A i \in 1..Len(scope.processors) : scope.processors[i].owner \in {0, r}
        /\ \A e \in Events(r) :
             /\ e.transaction = Some(request[r].url.path)
             /\ IsSome(e.request)
             /\ Unwrap(e.request).url = Some(request[r].url)
             /\ Unwrap(e.request).method = Some(UpperCase(request[r].method))
             /\ DOMAIN Unwrap(e.request).headers = HeaderNames(request[r].headers)
             /\ r \in Owners(e)
             /\ Owners(e) \subseteq {0, r}

\* Two requests with different paths and headers, both with an accepted event.
C1_Witness ==
    \E r1, r2 \in Reqs :
        /\ r1 # r2
        /\ delivered[r1] # <<>> /\ delivered[r2] # <<>>
        /\ request[r1].url.path # request[r2].url.path
        /\ request[r1].headers # request[r2].headers

\* C2 as stated: a returned request whose response status is >= 500, with
\* capture enabled, made exactly one submission.
C2_Original ==
    \A r \in Reqs :
        (Returned(r) /\ mw.capture_server_errors /\ handlerResp[r].status >= 500)
            => Len(captures[r]) = 1

\* C2, amended: a returned request whose response status is >= 500 and whose
\* response carries a failure object, with capture enabled, made exactly one
\* submission call, and the client accepted at most one event from it.
C2_ExactlyOne ==
    \A r \in Reqs :
        (Returned(r) /\ mw.capture_server_errors /\ handlerResp[r].status >= 500
                     /\ IsSome(handlerResp[r].error))
            => (Len(captures[r]) = 1 /\ Len(delivered[r]) <= 1)

\* A 503 with a failure object went through handle() with capture enabled.
C2_Witness ==
    \E r \in Reqs :
        /\ Returned(r) /\ mw.capture_server_errors
        /\ handlerResp[r].status = 503 /\ IsSome(handlerResp[r].error)
        /\ Len(delivered[r]) = 1

\* C3: a request whose response status is below 500 submits nothing and gets
\* back the handler's response as it was, under every configuration.
C3_PassThrough ==
    \A r \in Reqs :
        (Returned(r) /\ handlerResp[r].status < 500)
            => /\ captures[r] = <<>>
               /\ delivered[r] = <<>>
               /\ response[r] = handlerResp[r]
               /\ DOMAIN response[r].headers = DOMAIN handlerResp[r].headers

\* A 404 with a failure object, with capture and header emission both on.
C3_Witness ==
    \E r \in Reqs :
        /\ Returned(r) /\ mw.capture_server_errors /\ mw.emit_header
        /\ handlerResp[r].status = 404 /\ IsSome(handlerResp[r].error)

\* C4: the hub handle() creates for a request is derived from the hub given
\* to with_hub when there is one, from the main hub otherwise, and every
\* submission goes through that child.
C4_ConfiguredHub ==
    \A r \in Reqs :
        InFlight(r) =>
            /\ hubs[hubOf[r]].parent = (IF IsSome(mw.hub) THEN Unwrap(mw.hub) ELSE MainHub)
            /\ \A c \in Calls(r) : c.hub = hubOf[r]

\* C5: with capture_server_errors off, no request submits anything and no
\* response gets a header it did not have.
C5_CaptureOff ==
    ~mw.capture_server_errors =>
        \A r \in Reqs :
            /\ captures[r] = <<>>
            /\ delivered[r] = <<>>
            /\ Returned(r) => response[r].headers = handlerResp[r].headers

\* A 5xx response with a failure object returned with capture off.
C5_Witness ==
    \E r \in Reqs :
        /\ Returned(r) /\ ~mw.capture_server_errors
        /\ IsServerError(handlerResp[r].status) /\ IsSome(handlerResp[r].error)

HexChars == {"0", "1", "2", "3", "4", "5", "6", "7", "8", "9", "a", "b", "c", "d", "e", "f"}
HexValue(c) == CHOOSE n \in 0..15 : HexDigit(n) = c

\* v is the dash-free lowercase hex spelling of the identifier id.
IsSimpleFormOf(v, id) ==
    /\ Len(v) = 2 * Len(id)
    /\ \A k \in 1..Len(v) : v[k] \in HexChars
    /\ \A i \in 1..Len(id) : 16 * HexValue(v[2 * i - 1]) + HexValue(v[2 * i]) = id[i]

\* C6: with emit_header on, a returned response whose error was captured has
\* the header x-sentry-event, spelling in dash-free hex the identifier that
\* request's own submission returned; with emit_header off the headers are
\* the handler's, capture or not.
C6_HeaderEmission ==
    \A r \in Reqs :
        Returned(r) =>
            /\ (mw.emit_header /\ captures[r] # <<>>) =>
                 /\ "x-sentry-event" \in DOMAIN response[r].headers
                 /\ IsSimpleFormOf(response[r].headers["x-sentry-event"], captures[r][1].event_id)
            /\ ~mw.emit_header => response[r].headers = handlerResp[r].headers

\* A captured error, header emission on, a non-nil identifier in the header.
C6_Witness ==
    \E r \in Reqs :
        /\ Returned(r) /\ mw.emit_header /\ delivered[r] # <<>>
        /\ captures[r][1].event_id # NilId
        /\ "x-sentry-event" \in DOMAIN response[r].headers

\* The Request Snapshots handle() built for request r: the ones its closure
\* on the hub's scope owns.
Snapshots(r) ==
    LET ps == hubs[hubOf[r]].scope.processors
    IN { ps[i].sentry_req : i \in { j \in 1..Len(ps) : ps[j].kind = "tide" /\ ps[j].owner = r } }

PiiEnabled(r) ==
    LET c == hubs[hubOf[r]].client
    IN IsSome(c) /\ Unwrap(c).send_default_pii

HasRemote(sr) == "REMOTE_ADDR" \in DOMAIN sr.env

\* C7: a Request Snapshot holds a remote address exactly when the client has
\* PII inclusion enabled and the request's peer address is known, and then
\* it is that peer address; the same holds of the request field of every
\* accepted event.
C7_PiiFlag ==
    \A r \in Reqs :
        InFlight(r) =>
            /\ Snapshots(r) # {}
            /\ \A sr \in Snapshots(r) \cup { Unwrap(e.request) : e \in Events(r) } :
                 /\ HasRemote(sr) <=> (PiiEnabled(r) /\ IsSome(request[r].remote))
                 /\ HasRemote(sr) => sr.env["REMOTE_ADDR"] = Unwrap(request[r].remote)

\* PII enabled, the peer known: the accepted event has the remote address.
C7_Witness ==
    \E r \in Reqs :
        /\ InFlight(r)
        /\ PiiEnabled(r) /\ IsSome(request[r].remote)
        /\ \E e \in Events(r) : HasRemote(Unwrap(e.request))

\* C8: the event of a captured server error has the request's path alone as
\* transaction (neither query nor fragment), the request's method as
\* request.method, and the response returned has the handler's status.
C8_EndToEnd ==
    \A r \in Reqs :
        /\ \A e \in Events(r) :
             /\ e.transaction = Some(request[r].url.path)
             /\ \A k \in 1..Len(Unwrap(e.transaction)) :
                  /\ Some(Unwrap(e.transaction)[k]) # request[r].url.query
                  /\ Some(Unwrap(e.transaction)[k]) # request[r].url.fragment
             /\ IsSome(e.request)
             /\ Unwrap(e.request).method = Some(UpperCase(request[r].method))
        /\ (Returned(r) /\ captures[r] # <<>>) => response[r].status = handlerResp[r].status

\* POST /orders/42?page=2 failed with 503: event accepted, response returned.
C8_Witness ==
    \E r \in Reqs :
        /\ Returned(r) /\ delivered[r] # <<>>
        /\ request[r].url.path = <<"/orders", "/42">> /\ IsSome(request[r].url.query)
        /\ request[r].method = "Post"
        /\ response[r].status = 503
        /\ mw.emit_header

\* C9: process_event, given an event with SDK info, returns it with one more
\* package, this crate's, after the packages it had, those unchanged and in
\* order; given an event without SDK info, it returns one without.
C9_SdkPackages ==
    \A i \in 1..Len(pev.out) :
        LET before == IF i = 1 THEN pev.event ELSE pev.out[i - 1]
            after == pev.out[i]
        IN IF IsSome(before.sdk)
           THEN LET old == Unwrap(before.sdk).packages
                    new_ == Unwrap(after.sdk).packages
                IN /\ IsSome(after.sdk)
                   /\ Unwrap(after.sdk).name = Unwrap(before.sdk).name
                   /\ Len(new_) = Len(old) + 1
                   /\ \A k \in 1..Len(old) : new_[k] = old[k]
                   /\ new_[Len(new_)] = ThisPackage
           ELSE IsNone(after.sdk)

\* An event with two packages, the first not this crate's, was processed.
C9_Witness ==
    /\ pev.out # <<>>
    /\ IsSome(pev.event.sdk)
    /\ Len(Unwrap(pev.event.sdk).packages) = 2
    /\ Unwrap(pev.event.sdk).packages[1] # ThisPackage

\* C10: a returned response whose error was captured has a failure object
\* with the status and the payload of the handler's, the handler's status,
\* and the handler's headers except possibly x-sentry-event, which differs
\* only if emit_header is on.
C10_Reattach ==
    \A r \in Reqs :
        (Returned(r) /\ captures[r] # <<>>) =>
            /\ IsSome(response[r].error)
            /\ Unwrap(response[r].error).status = Unwrap(handlerResp[r].error).status
            /\ Unwrap(response[r].error).payload = Unwrap(handlerResp[r].error).payload
            /\ response[r].status = handlerResp[r].status
            /\ DOMAIN response[r].headers \subseteq DOMAIN handlerResp[r].headers \cup {"x-sentry-event"}
            /\ \A n \in DOMAIN handlerResp[r].headers :
                 /\ n \in DOMAIN response[r].headers
                 /\ n # "x-sentry-event" => response[r].headers[n] = handlerResp[r].headers[n]
            /\ ~mw.emit_header => response[r].headers = handlerResp[r].headers

\* A captured 503 whose failure object carried status 500.
C10_Witness ==
    \E r \in Reqs :
        /\ Returned(r) /\ captures[r] # <<>>
        /\ handlerResp[r].status = 503
        /\ Unwrap(handlerResp[r].error).status = 500

\* C11: handle() never ends in an error: for every handler response and
\* configuration, with or without a reporting client, it returns Ok with the
\* handler's response (its status and its failure object), whatever the
\* submission gave.
C11_NeverFails ==
    \A r \in Reqs :
        /\ pc[r] # "failed"
        /\ Returned(r) =>
             /\ response[r].status = handlerResp[r].status
             /\ response[r].error = handlerResp[r].error

\* A server error went through handle() with no reporting client bound.
C11_Witness ==
    \E r \in Reqs :
        /\ Returned(r) /\ captures[r] # <<>>
        /\ IsNone(hubs[hubOf[r]].client)
        /\ captures[r][1].event_id = NilId

\* C12: a request task dropped before next.run() completed has made no
\* submission, holds no response, and its hub is released.
C12_Cancellation ==
    \A r \in Reqs :
        pc[r] = "cancelled" =>
            /\ captures[r] = <<>>
            /\ delivered[r] = <<>>
            /\ response[r] = NoResponse
            /\ hubs[ReqHub(r)] = NoHub

\* A task dropped after its handler had started, with capture enabled.
C12_Witness ==
    \E r \in Reqs :
        /\ pc[r] = "cancelled"
        /\ live[r] # request[r]
        /\ mw.capture_server_errors

\* C13: a 5xx response with no failure object attached is returned as it is:
\* nothing submitted, no header added, no failure object attached.
C13_NoFailureObject ==
    \A r \in Reqs :
        (Returned(r) /\ IsServerError(handlerResp[r].status) /\ IsNone(handlerResp[r].error))
            => /\ captures[r] = <<>>
               /\ delivered[r] = <<>>
               /\ response[r] = handlerResp[r]
               /\ IsNone(response[r].error)

\* A bare 500 returned with capture and header emission both on.
C13_Witness ==
    \E r \in Reqs :
        /\ Returned(r) /\ mw.capture_server_errors /\ mw.emit_header
        /\ handlerResp[r].status = 500 /\ IsNone(handlerResp[r].error)

\* C14: process_event fills an absent request field with the snapshot and
\* leaves a present one (a default one too) as it is, so a second application
\* gives the request field of the first.
C14_RequestIdempotent ==
    /\ \A i \in 1..Len(pev.out) :
         LET before == IF i = 1 THEN pev.event ELSE pev.out[i - 1]
         IN pev.out[i].request = (IF IsSome(before.request) THEN before.request
                                  ELSE Some(pev.sentry_req))
    /\ Len(pev.out) >= 2 => pev.out[2].request = pev.out[1].request

\* An event whose request field was present but default, processed twice.
C14_Witness ==
    /\ Len(pev.out) = 2
    /\ pev.event.request = Some(DefaultSentryRequest)
    /\ pev.sentry_req # DefaultSentryRequest

\* The request's headers, one (name, value) pair per occurrence, in order.
RECURSIVE Occurrences(_, _)
Occurrences(hs, i) ==
    IF i > Len(hs) THEN <<>>
    ELSE [k \in 1..Len(hs[i].values) |-> [name |-> hs[i].name, value |-> hs[i].values[k]]]
         \o Occurrences(hs, i + 1)

\* C15 as stated: the snapshot's header entries are the request's header
\* occurrences, one entry each, in iteration order.
C15_Original ==
    \A r \in Reqs :
        InFlight(r) =>
            \A sr \in Snapshots(r) :
                LET entries == MapEntries(sr.headers)
                    occ == Occurrences(request[r].headers, 1)
                IN /\ Len(entries) = Len(occ)
                   /\ \A i \in 1..Len(entries) : entries[i].name = occ[i].name

Punctuation == {"[", "]", ", ", "\""}

\* C15, amended: the snapshot's headers hold exactly one entry per header
\* name of the request, and the entry of a name spells all the values of that
\* name, in their order.
C15_HeadersByName ==
    \A r \in Reqs :
        InFlight(r) =>
            \A sr \in Snapshots(r) :
                /\ DOMAIN sr.headers = HeaderNames(request[r].headers)
                /\ Len(MapEntries(sr.headers)) = Len(request[r].headers)
                /\ \A i \in 1..Len(request[r].headers) :
                     SelectSeq(sr.headers[request[r].headers[i].name],
                               LAMBDA t : t \notin Punctuation)
                        = request[r].headers[i].values

\* A request with two header names, one of them with two values.
C15_Witness ==
    \E r \in Reqs :
        /\ InFlight(r)
        /\ request[r].headers = HeadersTwo
        /\ \E sr \in Snapshots(r) : Len(MapEntries(sr.headers)) = 2

\* C16: whenever a request's handler is being polled, the current hub of the
\* thread that polls it is that request's own hub: not the main hub, not the
\* thread's own, not another request's.
C16_ActiveHub ==
    \A r \in Reqs :
        pc[r] = "polling" =>
            /\ worker[r] \in Workers
            /\ threadHub[worker[r]] = hubOf[r]
            /\ threadHub[worker[r]] = ReqHub(r)
            /\ hubs[threadHub[worker[r]]].scope.transaction = Some(request[r].url.path)

\* A handler polled again while another request's handler, already started,
\* is suspended.
C16_Witness ==
    \E r1, r2 \in Reqs :
        /\ r1 # r2
        /\ pc[r1] = "polling" /\ live[r1] # request[r1]
        /\ pc[r2] = "running" /\ live[r2] # request[r2]

\* C17: once the handler can run, the request's hub has the transaction and
\* the closure; before the handler has returned, there is no response and no
\* submission; a submission exists only once handle() has returned.
C17_Ordering ==
    \A r \in Reqs :
        /\ pc[r] \in {"running", "polling", "returned", "done"} =>
             /\ hubs[hubOf[r]].scope.transaction = Some(request[r].url.path)
             /\ Snapshots(r) # {}
        /\ pc[r] \in {"idle", "running", "polling", "cancelled"} =>
             /\ captures[r] = <<>>
             /\ handlerResp[r] = NoResponse
             /\ response[r] = NoResponse
        /\ captures[r] # <<>> => (pc[r] = "done" /\ handlerResp[r] # NoResponse)

\* A handler that ran and changed the request, then a captured error.
C17_Witness ==
    \E r \in Reqs :
        /\ Returned(r) /\ captures[r] # <<>>
        /\ live[r] # request[r]
        /\ "x-sentry-event" \in DOMAIN response[r].headers

\* C18: the main hub, the hub given to with_hub and the threads' hubs keep
\* the scope they started with; every request's hub has a scope of its own.
C18_ParentUntouched ==
    /\ hubs[MainHub].scope = StartupScope
    /\ hubs[CustomHub].scope = EmptyScope
    /\ \A w \in Workers : hubs[ThreadHub(w)].scope = StartupScope
    /\ \A r \in Reqs :
         InFlight(r) =>
            /\ hubOf[r] \notin {MainHub, CustomHub}
            /\ Len(hubs[hubOf[r]].scope.processors) = Len(StartupScope.processors) + 1

\* Every request slot has handled a request to its end, with a hub configured.
C18_Witness ==
    /\ IsSome(mw.hub)
    /\ \A r \in Reqs : Returned(r) /\ captures[r] # <<>>

\* C19: when the handler has changed the request, an accepted event still
\* has the url, method, headers and remote address the request had when
\* handle() was called, not those it has now.
C19_SnapshotAtCreation ==
    \A r \in Reqs :
        live[r] # request[r] =>
            \A e \in Events(r) :
                LET sr == Unwrap(e.request)
                IN /\ sr.url = Some(request[r].url)
                   /\ sr.url # Some(live[r].url)
                   /\ sr.method = Some(UpperCase(request[r].method))
                   /\ DOMAIN sr.headers = HeaderNames(request[r].headers)
                   /\ "x-internal" \notin DOMAIN sr.headers
                   /\ HasRemote(sr) => sr.env["REMOTE_ADDR"] = Unwrap(request[r].remote)

\* The handler changed the request; the event has the first peer address.
C19_Witness ==
    \E r \in Reqs :
        /\ Returned(r) /\ live[r] # request[r]
        /\ \E e \in Events(r) :
             /\ HasRemote(Unwrap(e.request))
             /\ Unwrap(e.request).env["REMOTE_ADDR"] # Unwrap(live[r].remote)

====
